---- MODULE Spec2Model ----
(***************************************************************************)
(* The dual-pane terminal session of planq (package tui).                  *)
(*                                                                         *)
(* Two layers are modelled.                                                *)
(*                                                                         *)
(*  - Pane (internal/tui/pane.go): one pseudo-terminal, one child process  *)
(*    and one emulator, with the atomic flags done and closed, the         *)
(*    sync.Once that guards Close, and the background pumps that store     *)
(*    done.                                                                *)
(*  - model / Run (the bubbletea model of the dual-pane TUI): the fields   *)
(*    of the model struct, its Update handlers for size, key and tick      *)
(*    messages, cleanup, and Run's call of cleanup after the host loop.    *)
(*                                                                         *)
(* Spec is the whole session: the host loop delivers messages one at a     *)
(* time to Update (each handler is one atomic action), the pumps and the   *)
(* child processes run concurrently with it.  A handler that returns       *)
(* tea.Quit only puts a quit message in flight: the host handles it like   *)
(* any other message, so size, key and tick messages may still be          *)
(* delivered before the loop returns.                                      *)
(*                                                                         *)
(* SpecSizes is the same session with terminal sizes on both sides of the  *)
(* smallest usable layout, two keys, and no child exiting.                 *)
(*                                                                         *)
(* SpecFrames is the same session with small terminal sizes and the keys     *)
(* that move the focus; the frames View and Draw make of its states are     *)
(* examined there.                                                         *)
(*                                                                         *)
(* SpecGitignore is Workspace.ensureGitignore called on a .gitignore of     *)
(* any content up to a length, over an alphabet of four characters.        *)
(*                                                                         *)
(* SpecPane is one Pane used through its exported methods by several       *)
(* execution contexts at once; there Close is split into the steps of      *)
(* sync.Once.Do and of the closure it runs.                                *)
(***************************************************************************)
EXTENDS Integers, Sequences, FiniteSets, TLC

\* Bounds of the model: the panes constructed in one session, the quit messages in
\* flight up to which the host still delivers size, key and tick messages, and the
\* execution contexts that call one Pane under SpecPane, and the largest terminal
\* width of the size messages under SpecSizes (besides 80), and under SpecGitignore
\* the length of the .gitignore at first and the number of calls made on it.
MaxPanes == 2
MaxQuits == 2
NumCallers == 2
MaxWidth == 7
MaxLen == 5
MaxCalls == 2

VARIABLES
    pc,           \* where Run is: "loop" (inside p.Run) or "returned"; "harness" under SpecPane
    width,        \* model.width
    height,       \* model.height
    started,      \* model.started
    focused,      \* model.focused
    metaActive,   \* model.metaActive
    mpanes,       \* model.panes: two slots, each 0 (nil) or the index of a pane in heap
    cleanupOnce,  \* model.cleanupOnce has fired
    cleanupRuns,  \* number of executions of the closure of cleanup
    quitSignals,  \* number of tea.Quit commands returned by Update
    tickPending,  \* a tick command is in flight
    heap,         \* every Pane constructed so far, in order of construction
    lastKey,      \* the most recent key message handled, what the handler sent, and
                  \* the number (modulo 2) of switch-pane commands handled so far
    callers,      \* SpecPane: the execution contexts calling the Pane's methods
    ws,           \* SpecGitignore: the .gitignore of a worktree, as it was at first
                  \* and as it is, and the number of calls made on it
    pumps         \* SpecPane: which of the pane's three goroutines have returned

vars == <<pc, width, height, started, focused, metaActive, mpanes, cleanupOnce,
          cleanupRuns, quitSignals, tickPending, heap, lastKey, callers, ws,
          pumps>>

ctl == <<width, height, started, focused, metaActive, mpanes>>

----------------------------------------------------------------------------
\* Inputs.

\* Terminal sizes delivered by the host: 80x24 has a valid layout (panes of 37x21),
\* 6x3 has not (pw = 0, ph = 0).
Sizes == {<<80, 24>>, <<6, 3>>}

\* Key messages: Ctrl+A, a, q, Ctrl+Q, Tab, x.
Keys == { [code |-> "a", mod |-> "ctrl"], [code |-> "a", mod |-> "none"],
          [code |-> "q", mod |-> "none"], [code |-> "q", mod |-> "ctrl"],
          [code |-> "tab", mod |-> "none"], [code |-> "x", mod |-> "none"] }
CtrlA == [code |-> "a", mod |-> "ctrl"]
NoKey == [code |-> "none", mod |-> "none"]

\* The result of releasing a pseudo-terminal (pty.Close).
Results == {"ok", "err"}

\* The outcomes of NewPane: a pane, xpty.NewPty failed, pty.Start failed.
Outcomes == {"ok", "ptyfail", "startfail"}

----------------------------------------------------------------------------
\* Workspace: the .gitignore of the worktree.

\* The three goroutines NewPane starts, none of which has returned.
AllPumps == [out |-> "running", in |-> "running", wait |-> "running"]

\* The characters of a file: two of the entry ".planq/agent/" (written "p/"), the
\* space and the newline.
Chars == {"p", "/", " ", "\n"}

\* The entry InitAgentDir passes to ensureGitignore.
AgentEntry == <<"p", "/">>

\* A file that does not exist reads as no content.
NoFile == [exists |-> FALSE, content |-> <<>>]

NoWorkspace == [initial |-> NoFile, file |-> NoFile, calls |-> 0]

\* The .gitignore files a worktree can hold at first.
Files ==
    {NoFile} \cup
    {[exists |-> TRUE, content |-> c] :
        c \in UNION {[1 .. n -> Chars] : n \in 0 .. MaxLen}}

\* strings.Split(s, "\n"): the pieces between newlines, empty pieces included.
RECURSIVE Split(_)
Split(s) ==
    IF s = <<>> THEN << <<>> >>
    ELSE IF Head(s) = "\n" THEN << <<>> >> \o Split(Tail(s))
    ELSE LET rest == Split(Tail(s))
         IN  << <<Head(s)>> \o Head(rest) >> \o Tail(rest)

IsSpace(c) == c \in {" ", "\n"}

RECURSIVE TrimLeft(_)
TrimLeft(s) ==
    IF s # <<>> /\ IsSpace(Head(s)) THEN TrimLeft(Tail(s)) ELSE s

RECURSIVE TrimRight(_)
TrimRight(s) ==
    IF s # <<>> /\ IsSpace(s[Len(s)])
    THEN TrimRight(SubSeq(s, 1, Len(s) - 1)) ELSE s

\* strings.TrimSpace
TrimSpace(s) == TrimRight(TrimLeft(s))

\* Mutant: the lines are compared as they are.
EntryPresentVerbatim(content, entry) ==
    \E i \in 1 .. Len(Split(content)) : Split(content)[i] = entry

\* The loop over the lines: some line is the entry once trimmed.
EntryPresent(content, entry) ==
    \E i \in 1 .. Len(Split(content)) : TrimSpace(Split(content)[i]) = entry

\* newContent: the content, a newline if it is not empty and does not end in one,
\* the entry and a newline.
NewContent(content, entry) ==
    (IF Len(content) > 0 /\ content[Len(content)] # "\n"
     THEN content \o <<"\n">> ELSE content) \o entry \o <<"\n">>

\* The file after ensureGitignore(entry), reads and writes succeeding.
GitignoreAfter(file, entry) ==
    IF EntryPresent(file.content, entry) THEN file
    ELSE [exists |-> TRUE, content |-> NewContent(file.content, entry)]

ensureGitignore(entry) ==
    /\ pc = "workspace"
    /\ ws.calls < MaxCalls
    /\ ws' = [ws EXCEPT !.file = GitignoreAfter(@, entry), !.calls = @ + 1]
    /\ UNCHANGED <<pc, ctl, cleanupOnce, cleanupRuns, quitSignals, tickPending,
                   heap, lastKey, callers, pumps>>

\* InitAgentDir, as far as the .gitignore goes: the directories, scratch.md and the
\* settings file are other files.
InitAgentDir == ensureGitignore(AgentEntry)

InitGitignore ==
    /\ pc = "workspace"
    /\ width = 0
    /\ height = 0
    /\ started = FALSE
    /\ focused = 0
    /\ metaActive = FALSE
    /\ mpanes = <<0, 0>>
    /\ cleanupOnce = FALSE
    /\ cleanupRuns = 0
    /\ quitSignals = 0
    /\ tickPending = FALSE
    /\ heap = <<>>
    /\ lastKey = [ev |-> FALSE, key |-> [code |-> "none", mod |-> "none"],
                  started |-> FALSE, meta |-> FALSE, sent |-> <<>>, switches |-> 0]
    /\ callers = <<>>
    /\ \E f \in Files : ws = [initial |-> f, file |-> f, calls |-> 0]
    /\ pumps = AllPumps

NextGitignore ==
    \/ ensureGitignore(AgentEntry)
    \/ InitAgentDir

SpecGitignore == InitGitignore /\ [][NextGitignore]_vars

----------------------------------------------------------------------------
\* Pane.

\* Go's integer division truncates toward zero.
GoDiv(a, b) == IF a >= 0 THEN a \div b ELSE -((-a) \div b)

\* Mutant: the divider column is not counted.
paneSizeNoDivider(termWidth, termHeight) ==
    <<GoDiv(termWidth - 4, 2), termHeight - 3>>

paneSize(termWidth, termHeight) ==
    <<GoDiv(termWidth - 5, 2), termHeight - 3>>

\* The Pane NewPane returns: pty and emulator both sized (w, h), the child running,
\* both flags unset, the sync.Once unused.
NewPane(w, h) ==
    [ pty |-> <<w, h>>, emu |-> <<w, h>>, proc |-> "running",
      done |-> FALSE, closed |-> FALSE, once |-> "fresh",
      signals |-> 0, emuCloses |-> 0, ptyCloses |-> 0, closeRes |-> "none" ]

\* Mutant: the pty is kept when the command fails to start.
StartFailureLeaksPty(o) == 0

\* The calls of pty.Close() NewPane makes itself: one, when pty.Start failed.
StartFailureReleases(o) == IF o = "startfail" THEN 1 ELSE 0

\* NewPane from its call to its return under outcome o: the pseudo-terminals it
\* allocated and released, the emulators it created, the goroutines it started,
\* and the two values it returned (the pane as a sequence of none or one).
NewPaneOutcome(w, h, o) ==
    [ ptys       |-> IF o = "ptyfail" THEN 0 ELSE 1,
      ptyCloses  |-> StartFailureReleases(o),
      emus       |-> IF o = "ok" THEN 1 ELSE 0,
      goroutines |-> IF o = "ok" THEN 3 ELSE 0,
      pane       |-> IF o = "ok" THEN <<NewPane(w, h)>> ELSE <<>>,
      err        |-> CASE o = "ok" -> "nil"
                       [] o = "ptyfail" -> "creating pty"
                       [] OTHER -> "starting command" ]

Exited(p) == p.done

\* Mutant: storing closed also clears done.
StoreClosedClearsDone(p) == [p EXCEPT !.closed = TRUE, !.done = FALSE]

\* The steps of the closure Close hands to once.Do.
StoreClosed(p) == [p EXCEPT !.closed = TRUE]

\* Mutant: the signal is sent whether or not done is set.
SignalAlways(p) == [p EXCEPT !.signals = @ + 1]

\* cmd.Process is never nil for a Pane NewPane returned (pty.Start succeeded).
SignalIfRunning(p) ==
    IF ~p.done THEN [p EXCEPT !.signals = @ + 1] ELSE p

EmuClose(p) == [p EXCEPT !.emuCloses = @ + 1]

PtyClose(p, res) == [p EXCEPT !.ptyCloses = @ + 1, !.closeRes = res]

CloseBody(p, res) ==
    PtyClose(EmuClose(SignalIfRunning(StoreClosed(p))), res)

\* Mutant: a completion flag tested without mutual exclusion.
OnceEntersUnlocked(p) == p.once # "done"

\* p.once.Do: the call runs the closure only if no call has started it before.
OnceEnters(p) == p.once = "fresh"

\* Close called by the only goroutine that uses the pane (the event loop): once.Do
\* runs the closure the first time and nothing afterwards.
Close(p, res) ==
    IF OnceEnters(p) THEN [CloseBody(p, res) EXCEPT !.once = "done"] ELSE p

\* Mutant: Resize without the test of the two flags.
ResizeUnguarded(p, w, h, fail) ==
    IF fail THEN p
    ELSE [p EXCEPT !.pty = <<w, h>>, !.emu = <<w, h>>]

\* Mutant: the emulator is resized before the pty resize is known to have worked.
ResizeEmuFirst(p, w, h, fail) ==
    IF p.closed \/ p.done THEN p
    ELSE IF fail THEN [p EXCEPT !.emu = <<w, h>>]
    ELSE [p EXCEPT !.pty = <<w, h>>, !.emu = <<w, h>>]

\* Pane.Resize; fail says whether pty.Resize returns an error.
Resize(p, w, h, fail) ==
    IF p.closed \/ p.done THEN p
    ELSE IF fail THEN p
    ELSE [p EXCEPT !.pty = <<w, h>>, !.emu = <<w, h>>]

\* What Pane.Resize returns.
ResizeResult(p, fail) ==
    IF p.closed \/ p.done THEN "ok"
    ELSE IF fail THEN "err"
    ELSE "ok"

----------------------------------------------------------------------------
\* The pumps and the child process of pane id.

PaneIds == 1 .. Len(heap)

\* The child process terminates (by itself, or after the signal).
ProcExit(id) ==
    /\ pc # "returned"
    /\ heap[id].proc = "running"
    /\ heap' = [heap EXCEPT ![id].proc = "exited"]
    /\ UNCHANGED <<pc, ctl, cleanupOnce, cleanupRuns, quitSignals, tickPending, lastKey, callers, ws, pumps>>

\* Mutant: the output goroutine stores done while the pty is open and the child
\* runs.
PumpOutputAnytime(id) ==
    /\ pc # "returned"
    /\ heap' = [heap EXCEPT ![id].done = TRUE]
    /\ UNCHANGED <<pc, ctl, cleanupOnce, cleanupRuns, quitSignals, tickPending, lastKey, callers, ws>>

\* io.Copy(emu, pty) returns once the pty reports end of stream: the child is gone
\* or the pty was released.  Then done is stored.  (What becomes of pumps is said
\* where the action is used: only SpecPane follows the goroutines to their end.)
PumpOutput(id) ==
    /\ pc # "returned"
    /\ heap[id].proc = "exited" \/ heap[id].ptyCloses > 0
    /\ heap' = [heap EXCEPT ![id].done = TRUE]
    /\ UNCHANGED <<pc, ctl, cleanupOnce, cleanupRuns, quitSignals, tickPending, lastKey, callers, ws>>

\* xpty.WaitProcess returns once the child has terminated.  Then done is stored.
PumpWait(id) ==
    /\ pc # "returned"
    /\ heap[id].proc = "exited"
    /\ heap' = [heap EXCEPT ![id].done = TRUE]
    /\ UNCHANGED <<pc, ctl, cleanupOnce, cleanupRuns, quitSignals, tickPending, lastKey, callers, ws>>

----------------------------------------------------------------------------
\* model.

\* Mutant: the loop stops at the first Close that returns an error.
CleanupPanesUntilError(hp, r) ==
    LET h1 == IF mpanes[1] # 0
              THEN [hp EXCEPT ![mpanes[1]] = Close(@, r[1])] ELSE hp
    IN  IF mpanes[2] # 0 /\ ~(mpanes[1] # 0 /\ r[1] = "err")
        THEN [h1 EXCEPT ![mpanes[2]] = Close(@, r[2])] ELSE h1

\* The closure of cleanup: Close on every slot that holds a pane; r[1], r[2] are the
\* results of the two pty releases.  The result of Close is dropped.
CleanupPanes(hp, r) ==
    LET h1 == IF mpanes[1] # 0
              THEN [hp EXCEPT ![mpanes[1]] = Close(@, r[1])] ELSE hp
    IN  IF mpanes[2] # 0
        THEN [h1 EXCEPT ![mpanes[2]] = Close(@, r[2])] ELSE h1

\* Mutant: cleanup without its one-shot guard.
CleanupFiresAlways == TRUE

\* cleanupOnce.Do: whether this call of cleanup runs the closure.
CleanupFires == ~cleanupOnce

cleanup(r) ==
    IF CleanupFires
    THEN /\ heap' = CleanupPanes(heap, r)
         /\ cleanupOnce' = TRUE
         /\ cleanupRuns' = cleanupRuns + 1
    ELSE UNCHANGED <<heap, cleanupOnce, cleanupRuns>>

\* What the caller of cleanup learns of the teardown errors r: cleanup has no
\* result, p.Close() is a statement whose value is dropped, and Run returns the
\* error of p.Run only.
CleanupResult(r) == "ok"

\* ---- handleResize

\* Mutant: the first pane is dropped without Close.
LeakFirstOnFailure(p, res) == p

\* The first pane when the second construction failed: p0.Close().
CloseFirstOnFailure(p, res) == Close(p, res)

\* The panes added to the heap by the construction branch.  early says whether the
\* first child had already exited, and its pump stored done, when p0.Close() ran.
PanesConstructed(pw, ph, o0, o1, early, res) ==
    IF o0 # "ok" THEN <<>>
    ELSE IF o1 # "ok"
    THEN <<CloseFirstOnFailure(
              IF early THEN [NewPane(pw, ph) EXCEPT !.proc = "exited", !.done = TRUE]
              ELSE NewPane(pw, ph), res)>>
    ELSE <<NewPane(pw, ph), NewPane(pw, ph)>>

\* Mutant: slot 0 is assigned as soon as the first pane exists.
SlotsConstructedEagerly(n, o0, o1) ==
    IF o0 = "ok" /\ o1 = "ok" THEN <<n + 1, n + 2>>
    ELSE IF o0 = "ok" THEN <<n + 1, 0>>
    ELSE mpanes

\* model.panes after the construction branch; n is the number of panes before it.
SlotsConstructed(n, o0, o1) ==
    IF o0 = "ok" /\ o1 = "ok" THEN <<n + 1, n + 2>> ELSE mpanes

StartedAfterConstruct(o0, o1) == o0 = "ok" /\ o1 = "ok"

\* Whether the construction branch returns tea.Quit.
ConstructQuits(o0, o1) == o0 # "ok" \/ o1 # "ok"

\* Mutant: the loop stops at the first pane whose pty.Resize fails.
ResizePanesUntilError(hp, pw, ph, f) ==
    [hp EXCEPT ![mpanes[1]] = Resize(@, pw, ph, f[1]),
               ![mpanes[2]] = IF f[1] /\ ~hp[mpanes[1]].closed /\ ~hp[mpanes[1]].done
                              THEN @ ELSE Resize(@, pw, ph, f[2])]

\* The resize loop over both panes; f[1], f[2] say whether each pty.Resize fails.
ResizePanes(hp, pw, ph, f) ==
    [hp EXCEPT ![mpanes[1]] = Resize(@, pw, ph, f[1]),
               ![mpanes[2]] = Resize(@, pw, ph, f[2])]

\* Mutant: a layout with an empty pane counts as usable.
LayoutUnusableIfNegative(pw, ph) == pw < 0 \/ ph < 0

\* Mutant: only the width of the panes is tested.
LayoutUnusableByWidth(pw, ph) == pw <= 0

\* The test handleResize makes before it constructs or resizes panes.
LayoutUnusable(pw, ph) == pw <= 0 \/ ph <= 0

handleResize(sz) ==
    /\ pc = "loop"
    /\ quitSignals < MaxQuits
    /\ width' = sz[1]
    /\ height' = sz[2]
    /\ LET pw == paneSize(sz[1], sz[2])[1]
           ph == paneSize(sz[1], sz[2])[2]
       IN  IF LayoutUnusable(pw, ph)
           THEN UNCHANGED <<started, mpanes, heap, quitSignals>>
           ELSE IF ~started
           THEN \E o0, o1 \in Outcomes, early \in BOOLEAN, res \in Results :
                  /\ Len(heap) + Len(PanesConstructed(pw, ph, o0, o1, early, res)) <= MaxPanes
                  /\ heap' = heap \o PanesConstructed(pw, ph, o0, o1, early, res)
                  /\ mpanes' = SlotsConstructed(Len(heap), o0, o1)
                  /\ started' = StartedAfterConstruct(o0, o1)
                  /\ quitSignals' = IF ConstructQuits(o0, o1)
                                    THEN quitSignals + 1 ELSE quitSignals
           ELSE \E f \in [1 .. 2 -> BOOLEAN] :
                  /\ heap' = ResizePanes(heap, pw, ph, f)
                  /\ UNCHANGED <<started, mpanes, quitSignals>>
    /\ UNCHANGED <<pc, focused, metaActive, cleanupOnce, cleanupRuns, tickPending,
                   lastKey, callers, ws, pumps>>

\* ---- handleKey

IsPrefix(key) == key.code = "a" /\ key.mod = "ctrl"

\* Mutant: the quit command ignores the modifier.
MetaCommandAnyMod(key) ==
    IF key.code = "tab" THEN "switch"
    ELSE IF key.code = "q" THEN "quit"
    ELSE IF key.code = "a" /\ key.mod = "ctrl" THEN "literal"
    ELSE "none"

\* The switch on the key pressed while metaActive: the first case that matches.
MetaCommand(key) ==
    IF key.code = "tab" THEN "switch"
    ELSE IF key.code = "q" /\ key.mod = "none" THEN "quit"
    ELSE IF key.code = "a" /\ key.mod = "ctrl" THEN "literal"
    ELSE "none"

\* Mutant: the key goes to the emulator whether or not the pane has exited.
sendKeyAlways(key) == <<[pane |-> focused, key |-> key]>>

\* sendKey: what reaches an emulator, as the sequence of (slot, key) it is sent to.
\* tea.KeyPressMsg, tea.Key and vt.KeyPressEvent have the same fields; the
\* conversions between them keep Code and Mod.
sendKey(key) ==
    IF ~Exited(heap[mpanes[focused + 1]])
    THEN <<[pane |-> focused, key |-> key]>>
    ELSE <<>>

\* Mutant: the repeated prefix is forwarded as the key message itself, and the
\* prefix that turns meta-mode on is forwarded too.
KeySentWithPrefix(key) ==
    IF ~started THEN <<>>
    ELSE IF metaActive
    THEN IF MetaCommand(key) = "literal" THEN sendKey(key) \o sendKey(key) ELSE <<>>
    ELSE sendKey(key)

\* What handleKey sends for key.
KeySent(key) ==
    IF ~started THEN <<>>
    ELSE IF metaActive
    THEN IF MetaCommand(key) = "literal" THEN sendKey(CtrlA) ELSE <<>>
    ELSE IF IsPrefix(key) THEN <<>>
    ELSE sendKey(key)

\* Mutant: the prefix is accepted before the panes exist.
MetaAfterKeyUnstarted(key) ==
    IF metaActive THEN FALSE ELSE IsPrefix(key)

\* Mutant: metaActive is reset only by the commands the switch recognises.
MetaAfterKeySticky(key) ==
    IF ~started THEN metaActive
    ELSE IF metaActive THEN MetaCommand(key) = "none"
    ELSE IsPrefix(key)

\* metaActive after handleKey.
MetaAfterKey(key) ==
    IF ~started THEN metaActive
    ELSE IF metaActive THEN FALSE
    ELSE IsPrefix(key)

\* Mutant: the switch command always selects the right pane.
FocusAfterKeyRight(key) ==
    IF started /\ metaActive /\ MetaCommand(key) = "switch"
    THEN 1 ELSE focused

\* Mutant: a key forwarded to a pane moves the focus to the other one.
FocusAfterKeyOnForward(key) ==
    IF started /\ metaActive /\ MetaCommand(key) = "switch" THEN 1 - focused
    ELSE IF started /\ ~metaActive /\ ~IsPrefix(key) THEN 1 - focused
    ELSE focused

\* focused after handleKey.
FocusAfterKey(key) ==
    IF started /\ metaActive /\ MetaCommand(key) = "switch"
    THEN 1 - focused ELSE focused

\* Mutant: q quits whether or not meta-mode is on.
KeyQuitsWithoutMeta(key) == started /\ MetaCommand(key) = "quit"

\* Whether handleKey runs cleanup and returns tea.Quit.
KeyQuits(key) == started /\ metaActive /\ MetaCommand(key) = "quit"

handleKey(key) ==
    /\ pc = "loop"
    /\ quitSignals < MaxQuits
    /\ lastKey' = [ev |-> TRUE, key |-> key, started |-> started,
                   meta |-> metaActive, sent |-> KeySent(key),
                   switches |-> IF started /\ metaActive /\ key.code = "tab"
                                THEN (lastKey.switches + 1) % 2
                                ELSE lastKey.switches]
    /\ metaActive' = MetaAfterKey(key)
    /\ focused' = FocusAfterKey(key)
    /\ IF KeyQuits(key)
       THEN /\ \E r \in [1 .. 2 -> Results] : cleanup(r)
            /\ quitSignals' = quitSignals + 1
       ELSE UNCHANGED <<heap, cleanupOnce, cleanupRuns, quitSignals>>
    /\ UNCHANGED <<pc, width, height, started, mpanes, tickPending, callers, ws, pumps>>

\* ---- View

\* The cursor positions an emulator reports, as (X, Y).
Positions == {<<0, 0>>, <<3, 2>>}

\* Mutant: the right pane's offset without the divider column.
ViewNoDivider(cur) ==
    IF ~started THEN [content |-> "waiting", cursor |-> <<>>]
    ELSE LET pos == cur[focused]
             pw == paneSize(width, height)[1]
         IN  [content |-> "panes",
              cursor |-> <<IF focused = 1 THEN pos[1] + pw + 3 ELSE pos[1] + 1,
                           pos[2] + 1>>]

\* View: what is displayed and where the cursor is shown (<<>>: not set);
\* cur[i] is the cursor position the emulator of model.panes[i] reports.
View(cur) ==
    IF ~started THEN [content |-> "waiting", cursor |-> <<>>]
    ELSE LET pos == cur[focused]
             pw == paneSize(width, height)[1]
         IN  [content |-> "panes",
              cursor |-> <<IF focused = 1 THEN pos[1] + pw + 4 ELSE pos[1] + 1,
                           pos[2] + 1>>]

\* ---- dualPaneLayer.Draw

\* image.Rect(x0, y0, x1, y1): the cells (x, y) with minX <= x < maxX and
\* minY <= y < maxY; the corners are put in order.
Rect(x0, y0, x1, y1) ==
    [ minX |-> IF x0 <= x1 THEN x0 ELSE x1, minY |-> IF y0 <= y1 THEN y0 ELSE y1,
      maxX |-> IF x0 <= x1 THEN x1 ELSE x0, maxY |-> IF y0 <= y1 THEN y1 ELSE y0 ]

\* The cells of a rectangle.
CellsOf(rc) ==
    {<<x, y>> : x \in rc.minX .. rc.maxX - 1, y \in rc.minY .. rc.maxY - 1}

\* The layer View hands to the host once the panes exist: a copy of the model's
\* fields as they are when View is called.
Layer == [panes |-> mpanes, focused |-> focused, width |-> width, height |-> height]

\* The drawable areas of a screen and the regions a layer is asked to draw into:
\* a terminal of 80x24, one of the smallest usable size, an area inside it that
\* is smaller than the layout, and a region that starts away from the origin.
Areas == {Rect(0, 0, 80, 24), Rect(0, 0, 7, 4), Rect(1, 1, 5, 3),
          Rect(2, 1, 90, 30)}

\* Mutant: a cell is written wherever it falls.
setCellUnchecked(bounds, x, y) == {<<x, y>>}

\* setCell: the cells it writes on a screen whose drawable area is bounds.
setCell(bounds, x, y) ==
    IF x < bounds.minX \/ x >= bounds.maxX \/ y < bounds.minY \/ y >= bounds.maxY
    THEN {}
    ELSE {<<x, y>>}

\* Mutant: the right border of the left pane is drawn on its last content column.
ColumnOffsetsOverlap(pw) ==
    [ lBorderL |-> 0, lContent |-> 1, lBorderR |-> pw, divCol |-> pw + 1,
      rBorderL |-> pw + 2, rContent |-> pw + 3, rBorderR |-> 2 * pw + 3 ]

\* Mutant: two divider columns.
ColumnOffsetsWideDivider(pw) ==
    [ lBorderL |-> 0, lContent |-> 1, lBorderR |-> 1 + pw, divCol |-> pw + 2,
      rBorderL |-> pw + 4, rContent |-> pw + 5, rBorderR |-> 2 * pw + 5 ]

\* The column offsets of the layout, relative to the origin of the region.
ColumnOffsets(pw) ==
    LET lBorderL == 0
        lContent == 1
        lBorderR == lContent + pw
        divCol   == lBorderR + 1
        rBorderL == divCol + 1
        rContent == rBorderL + 1
        rBorderR == rContent + pw
    IN  [ lBorderL |-> lBorderL, lContent |-> lContent, lBorderR |-> lBorderR,
          divCol |-> divCol, rBorderL |-> rBorderL, rContent |-> rContent,
          rBorderR |-> rBorderR ]

\* Mutant: the status bar is drawn on the row of the bottom border.
RowOffsetsNoStatusRow(ph) ==
    [ top |-> 0, first |-> 1, botY |-> 1 + ph, statusY |-> 1 + ph ]

\* The row offsets of the layout: the top border, the first content row, the
\* bottom border and the status bar.
RowOffsets(ph) ==
    [ top |-> 0, first |-> 1, botY |-> 1 + ph, statusY |-> 1 + ph + 1 ]

\* The offsets i at which "for i, ch := range statusText" finds a character: i
\* is the byte offset of the character in the string, and each of the two
\* separators (U+2502) takes three bytes.  The label is LEFT when focused is 0,
\* RIGHT (one byte longer) when it is 1.
StatusOffsets(f) ==
    LET n == IF f = 1 THEN 5 ELSE 4
    IN  (0 .. 10 + n + 1) \cup (10 + n + 4 .. 10 + n + 26) \cup (10 + n + 29 .. 10 + n + 44)

\* Mutant: the status text is written to its end.
StatusBarUnclipped(f, ox, statusY, r, bounds) ==
    UNION {setCell(bounds, ox + i, statusY) : i \in StatusOffsets(f)}

\* The status bar: the loop leaves at the first character at or beyond the right
\* edge of the region (the offsets grow, so every later one is beyond it too).
StatusBar(f, ox, statusY, r, bounds) ==
    UNION {setCell(bounds, ox + i, statusY) :
             i \in {j \in StatusOffsets(f) : ox + j < r.maxX}}

\* Draw of layer d into region r of a screen whose drawable area is bounds: the
\* cells Draw writes through setCell (styles left out), and the two rectangles it
\* hands to the emulators of panes[0] and panes[1] (none when it returns early).
Draw(d, r, bounds) ==
    LET pw == paneSize(d.width, d.height)[1]
        ph == paneSize(d.width, d.height)[2]
        ox == r.minX
        oy == r.minY
        col == ColumnOffsets(pw)
        row == RowOffsets(ph)
        BorderRow(y) ==
            setCell(bounds, ox + col.lBorderL, y)
            \cup UNION {setCell(bounds, ox + col.lContent + i, y) : i \in 0 .. pw - 1}
            \cup setCell(bounds, ox + col.lBorderR, y)
            \cup setCell(bounds, ox + col.divCol, y)
            \cup setCell(bounds, ox + col.rBorderL, y)
            \cup UNION {setCell(bounds, ox + col.rContent + i, y) : i \in 0 .. pw - 1}
            \cup setCell(bounds, ox + col.rBorderR, y)
        ContentRow(y) ==
            setCell(bounds, ox + col.lBorderL, y)
            \cup setCell(bounds, ox + col.lBorderR, y)
            \cup setCell(bounds, ox + col.divCol, y)
            \cup setCell(bounds, ox + col.rBorderL, y)
            \cup setCell(bounds, ox + col.rBorderR, y)
    IN  IF LayoutUnusable(pw, ph)
        THEN [cells |-> {}, areas |-> <<>>]
        ELSE [cells |-> BorderRow(oy + row.top)
                        \cup UNION {ContentRow(oy + row.first + i) : i \in 0 .. ph - 1}
                        \cup BorderRow(oy + row.botY)
                        \cup StatusBar(d.focused, ox, oy + row.statusY, r, bounds),
              areas |-> << Rect(ox + col.lContent, oy + row.first,
                                ox + col.lContent + pw, oy + row.first + ph),
                           Rect(ox + col.rContent, oy + row.first,
                                ox + col.rContent + pw, oy + row.first + ph) >>]

\* ---- tickMsg

\* Mutant: the tick never ends the session.
TickEndsNever == FALSE

\* Mutant: one exited pane is enough for the tick to end the session.
TickEndsOnEither ==
    started /\ (Exited(heap[mpanes[1]]) \/ Exited(heap[mpanes[2]]))

\* The condition under which the tick ends the session.
TickEnds ==
    started /\ Exited(heap[mpanes[1]]) /\ Exited(heap[mpanes[2]])

\* Mutant: the tick handler always returns doTick().
TickReschedulesAlways == TRUE

\* Whether the tick handler returns doTick().
TickReschedules == ~TickEnds

tick ==
    /\ pc = "loop"
    /\ quitSignals < MaxQuits
    /\ tickPending
    /\ IF TickEnds
       THEN /\ \E r \in [1 .. 2 -> Results] : cleanup(r)
            /\ quitSignals' = quitSignals + 1
       ELSE UNCHANGED <<heap, cleanupOnce, cleanupRuns, quitSignals>>
    /\ tickPending' = TickReschedules
    /\ UNCHANGED <<pc, ctl, lastKey, callers, ws, pumps>>

\* ---- the host loop and Run

\* Mutant: Run returns the error of p.Run without calling cleanup.
RunTailNoCleanup ==
    /\ pc' = "returned"
    /\ UNCHANGED <<ctl, heap, cleanupOnce, cleanupRuns, quitSignals, tickPending,
                   lastKey, callers, ws, pumps>>

\* Run after the host loop: p.Run returns, m.cleanup() is called, Run returns.
RunTail ==
    /\ \E r \in [1 .. 2 -> Results] : cleanup(r)
    /\ pc' = "returned"
    /\ UNCHANGED <<ctl, quitSignals, tickPending, lastKey, callers, ws, pumps>>

\* The host handles a quit message: p.Run returns nil.
hostQuit ==
    /\ pc = "loop"
    /\ quitSignals > 0
    /\ RunTail

\* p.Run returns by itself (an error, an interrupt, a kill), whether or not a quit
\* message is in flight.
hostAbort ==
    /\ pc = "loop"
    /\ RunTail

----------------------------------------------------------------------------
\* The session.

Init ==
    /\ pc = "loop"
    /\ width = 0
    /\ height = 0
    /\ started = FALSE
    /\ focused = 0
    /\ metaActive = FALSE
    /\ mpanes = <<0, 0>>
    /\ cleanupOnce = FALSE
    /\ cleanupRuns = 0
    /\ quitSignals = 0
    /\ tickPending = TRUE
    /\ heap = <<>>
    /\ lastKey = [ev |-> FALSE, key |-> NoKey, started |-> FALSE, meta |-> FALSE,
                  sent |-> <<>>, switches |-> 0]
    /\ callers = <<>>
    /\ ws = NoWorkspace
    /\ pumps = AllPumps

Next ==
    \/ \E sz \in Sizes : handleResize(sz)
    \/ \E key \in Keys : handleKey(key)
    \/ tick
    \/ hostQuit
    \/ hostAbort
    \/ \E id \in PaneIds : ProcExit(id)
    \/ \E id \in PaneIds : PumpOutput(id) /\ UNCHANGED pumps
    \/ \E id \in PaneIds : PumpWait(id) /\ UNCHANGED pumps

Spec == Init /\ [][Next]_vars

\* The session with the scheduling the program relies on: the timer started by
\* doTick fires and its message is delivered while the loop runs, and the two
\* goroutines that store done run once io.Copy or xpty.WaitProcess has returned.
\* Nothing obliges a child to exit, a key or a size message to arrive, or the host
\* to handle a quit message or to give up.
SpecLive ==
    /\ Spec
    /\ WF_vars(tick)
    /\ \A id \in 1 .. MaxPanes :
         /\ WF_vars(id \in PaneIds /\ PumpOutput(id) /\ UNCHANGED pumps)
         /\ WF_vars(id \in PaneIds /\ PumpWait(id) /\ UNCHANGED pumps)

\* The terminal sizes of the size messages under SpecSizes.
LayoutSizes == {<<w, h>> : w \in 4 .. MaxWidth, h \in {2, 3, 4}} \cup Sizes

\* The keys of the key messages under SpecSizes.
LayoutKeys == {CtrlA, [code |-> "q", mod |-> "none"]}

NextSizes ==
    \/ \E sz \in LayoutSizes : handleResize(sz)
    \/ \E key \in LayoutKeys : handleKey(key)
    \/ tick
    \/ hostQuit
    \/ hostAbort

SpecSizes == Init /\ [][NextSizes]_vars

\* The terminal sizes of the size messages under SpecFrames: one without a valid
\* layout, the smallest with one (panes of 1x1), one with a column to spare
\* (panes of 1x1 again), and one with panes of 2x2.
FrameSizes == {<<6, 3>>, <<7, 4>>, <<8, 4>>, <<9, 5>>}

\* The keys of the key messages under SpecFrames.
FrameKeys == {CtrlA, [code |-> "tab", mod |-> "none"]}

NextFrames ==
    \/ \E sz \in FrameSizes : handleResize(sz)
    \/ \E key \in FrameKeys : handleKey(key)
    \/ hostQuit
    \/ hostAbort

SpecFrames == Init /\ [][NextFrames]_vars

----------------------------------------------------------------------------
\* One Pane called from several execution contexts (SpecPane).  A context c is at
\* callers[c].pc: "idle", inside the closure of Close ("store", "signal", "emu",
\* "pty", "unlock"), "blocked" in once.Do while another context runs the closure,
\* "returned" with the value Close returned in callers[c].ret, "resized" with
\* the value Resize returned in callers[c].ret, the size it was called with and the
\* two flags it loaded, or "constructed" with what a call of NewPane did and
\* returned in callers[c].made.

Callers == 1 .. NumCallers

\* The sizes a pane is constructed with under SpecPane.
PaneSizes == {<<37, 21>>, <<1, 1>>}

At(c, where) == callers[c].pc = where

Goto(c, where) == callers' = [callers EXCEPT ![c].pc = where]

sessionVars ==
    <<pc, ctl, cleanupOnce, cleanupRuns, quitSignals, tickPending, lastKey,
      ws>>

\* Close is called: closeErr is nil; once.Do returns at once if the closure has
\* completed, runs it if nobody has started it, and waits otherwise.
CloseCall(c) ==
    /\ At(c, "idle")
    /\ IF heap[1].once = "done"
       THEN /\ callers' = [callers EXCEPT ![c] = [pc |-> "returned", ret |-> "ok"]]
            /\ UNCHANGED heap
       ELSE IF OnceEnters(heap[1])
       THEN /\ heap' = [heap EXCEPT ![1].once = "running"]
            /\ callers' = [callers EXCEPT ![c] = [pc |-> "store", ret |-> "ok"]]
       ELSE /\ callers' = [callers EXCEPT ![c] = [pc |-> "blocked", ret |-> "ok"]]
            /\ UNCHANGED heap
    /\ UNCHANGED <<sessionVars, pumps>>

\* p.closed.Store(true)
CloseStore(c) ==
    /\ At(c, "store")
    /\ heap' = [heap EXCEPT ![1] = StoreClosed(@)]
    /\ Goto(c, "signal")
    /\ UNCHANGED <<sessionVars, pumps>>

\* if p.cmd.Process != nil && !p.done.Load() { Signal(SIGTERM) }
CloseSignal(c) ==
    /\ At(c, "signal")
    /\ heap' = [heap EXCEPT ![1] = SignalIfRunning(@)]
    /\ Goto(c, "emu")
    /\ UNCHANGED <<sessionVars, pumps>>

\* p.emu.Close()
CloseEmu(c) ==
    /\ At(c, "emu")
    /\ heap' = [heap EXCEPT ![1] = EmuClose(@)]
    /\ Goto(c, "pty")
    /\ UNCHANGED <<sessionVars, pumps>>

\* closeErr = p.pty.Close(): closeErr is the variable of this call of Close.
ClosePty(c) ==
    /\ At(c, "pty")
    /\ \E res \in Results :
         /\ heap' = [heap EXCEPT ![1] = PtyClose(@, res)]
         /\ callers' = [callers EXCEPT ![c] = [pc |-> "unlock", ret |-> res]]
    /\ UNCHANGED <<sessionVars, pumps>>

\* The closure returns: once.Do marks it done, and Close returns closeErr.
CloseUnlock(c) ==
    /\ At(c, "unlock")
    /\ heap' = [heap EXCEPT ![1].once = "done"]
    /\ Goto(c, "returned")
    /\ UNCHANGED <<sessionVars, pumps>>

\* A context that waited in once.Do finds the closure completed: Close returns its
\* own closeErr, which nothing assigned.
CloseUnblock(c) ==
    /\ At(c, "blocked")
    /\ heap[1].once = "done"
    /\ Goto(c, "returned")
    /\ UNCHANGED <<heap, sessionVars, pumps>>

\* Resize is called with size sz; fail says whether pty.Resize returns an error.
\* The owner of the pane makes its calls of Resize one after the other.
ResizeCall(c, sz, fail) ==
    /\ At(c, "idle")
    /\ heap' = [heap EXCEPT ![1] = Resize(@, sz[1], sz[2], fail)]
    /\ callers' = [callers EXCEPT ![c] =
                     [pc |-> "resized", ret |-> ResizeResult(heap[1], fail),
                      size |-> sz, closed |-> heap[1].closed, done |-> heap[1].done]]
    /\ UNCHANGED <<sessionVars, pumps>>

\* NewPane is called with size sz for one more pane; o is what xpty.NewPty and
\* pty.Start do.  The context keeps what NewPane returned until its next call.
NewPaneCall(c, sz, o) ==
    /\ At(c, "idle")
    /\ callers' = [callers EXCEPT ![c] =
                     [pc |-> "constructed", ret |-> IF o = "ok" THEN "ok" ELSE "err",
                      outcome |-> o, made |-> NewPaneOutcome(sz[1], sz[2], o)]]
    /\ UNCHANGED <<heap, sessionVars, pumps>>

\* The context goes on to its next call.
CallAgain(c) ==
    /\ At(c, "returned") \/ At(c, "resized") \/ At(c, "constructed")
    /\ callers' = [callers EXCEPT ![c] = [pc |-> "idle", ret |-> "none"]]
    /\ UNCHANGED <<heap, sessionVars, pumps>>

\* The output goroutine returns: io.Copy(emu, pty) has returned and done is stored.
OutputPumpReturns ==
    /\ pumps.out = "running"
    /\ PumpOutput(1)
    /\ pumps' = [pumps EXCEPT !.out = "ended"]

\* The input goroutine returns: io.Copy(pty, emu) returns once the emulator or the
\* pty is closed.
InputPumpReturns ==
    /\ pumps.in = "running"
    /\ heap[1].emuCloses > 0 \/ heap[1].ptyCloses > 0
    /\ pumps' = [pumps EXCEPT !.in = "ended"]
    /\ UNCHANGED <<heap, callers, sessionVars>>

\* The wait goroutine returns: xpty.WaitProcess has returned and done is stored.
WaitPumpReturns ==
    /\ pumps.wait = "running"
    /\ PumpWait(1)
    /\ pumps' = [pumps EXCEPT !.wait = "ended"]

InitPane ==
    /\ pc = "harness"
    /\ width = 0
    /\ height = 0
    /\ started = FALSE
    /\ focused = 0
    /\ metaActive = FALSE
    /\ mpanes = <<0, 0>>
    /\ cleanupOnce = FALSE
    /\ cleanupRuns = 0
    /\ quitSignals = 0
    /\ tickPending = FALSE
    /\ \E sz \in PaneSizes : heap = <<NewPane(sz[1], sz[2])>>
    /\ lastKey = [ev |-> FALSE, key |-> NoKey, started |-> FALSE, meta |-> FALSE,
                  sent |-> <<>>, switches |-> 0]
    /\ callers = [c \in Callers |-> [pc |-> "idle", ret |-> "none"]]
    /\ ws = NoWorkspace
    /\ pumps = AllPumps

NextPane ==
    \/ \E c \in Callers : CloseCall(c)
    \/ \E c \in Callers : CloseStore(c)
    \/ \E c \in Callers : CloseSignal(c)
    \/ \E c \in Callers : CloseEmu(c)
    \/ \E c \in Callers : ClosePty(c)
    \/ \E c \in Callers : CloseUnlock(c)
    \/ \E c \in Callers : CloseUnblock(c)
    \/ \E c \in Callers : CallAgain(c)
    \/ \E c \in Callers, sz \in PaneSizes, fail \in BOOLEAN : ResizeCall(c, sz, fail)
    \/ \E c \in Callers, sz \in PaneSizes, o \in Outcomes : NewPaneCall(c, sz, o)
    \/ ProcExit(1)
    \/ OutputPumpReturns
    \/ InputPumpReturns
    \/ WaitPumpReturns

SpecPane == InitPane /\ [][NextPane]_vars

\* One Pane with the scheduling the program relies on: a context inside Close goes
\* on to its next step, and a goroutine whose io.Copy or WaitProcess can return
\* does return.  Nothing obliges the child to exit or a context to call a method.
SpecPaneLive ==
    /\ SpecPane
    /\ \A c \in Callers :
         /\ WF_vars(CloseStore(c))
         /\ WF_vars(CloseSignal(c))
         /\ WF_vars(CloseEmu(c))
         /\ WF_vars(ClosePty(c))
         /\ WF_vars(CloseUnlock(c))
         /\ WF_vars(CloseUnblock(c))
    /\ WF_vars(OutputPumpReturns)
    /\ WF_vars(InputPumpReturns)
    /\ WF_vars(WaitPumpReturns)

----------------------------------------------------------------------------
\* The controller's states.

BothPanes == mpanes[1] # 0 /\ mpanes[2] # 0

\* Both panes exist and cleanup has not run.
Running == started /\ ~cleanupOnce

FocusedPane == heap[mpanes[focused + 1]]

Released(p) == p.closed /\ p.emuCloses = 1 /\ p.ptyCloses = 1

Q == [code |-> "q", mod |-> "none"]

\* The most recent key message was the prefix, pressed while the panes existed and
\* meta-mode was off.
PrefixJustAccepted ==
    lastKey.ev /\ lastKey.started /\ IsPrefix(lastKey.key) /\ ~lastKey.meta

\* The most recent key message was the quit command (q with meta-mode on).
QuitKeyHandled ==
    lastKey.ev /\ lastKey.started /\ lastKey.meta /\ lastKey.key = Q

----------------------------------------------------------------------------
\* C1: in every state of every execution the closure of cleanup has run at most
\* once, and once Run has returned it has run exactly once, whichever way the host
\* loop ended.
CleanupExactlyOnce ==
    /\ cleanupRuns <= 1
    /\ pc = "returned" => cleanupRuns = 1

\* Run has returned after the quit command: cleanup was called by handleKey and
\* again by Run.
CleanupExactlyOnceWitness ==
    pc = "returned" /\ QuitKeyHandled /\ cleanupRuns = 1 /\ quitSignals >= 1

\* C2: however many contexts call Close on one pane, and however often, the
\* termination signal is sent at most once, the emulator and the pseudo-terminal
\* are released at most once, and both have been released exactly once as soon as
\* one call of Close has returned.
CloseReleasesOnce ==
    /\ heap[1].signals <= 1
    /\ heap[1].emuCloses <= 1
    /\ heap[1].ptyCloses <= 1
    /\ (\E c \in Callers : At(c, "returned"))
         => heap[1].emuCloses = 1 /\ heap[1].ptyCloses = 1

\* Every context has returned from Close, the child was signalled and both
\* handles are released.
CloseReleasesOnceWitness ==
    /\ \A c \in Callers : At(c, "returned")
    /\ heap[1].signals = 1
    /\ Released(heap[1])

\* C3: every call of Close that has returned, returned the result of the pane's
\* pseudo-terminal release.
CloseReturnsFirstResult ==
    \A c \in Callers : At(c, "returned") => callers[c].ret = heap[1].closeRes

AllOrNothing ==
    \/ mpanes = <<0, 0>> /\ ~started
    \/ BothPanes /\ mpanes[1] # mpanes[2] /\ started

\* Both panes exist, neither is closed, and no quit was signalled.
AllOrNothingWitness ==
    started /\ BothPanes /\ quitSignals = 0 /\ ~heap[mpanes[1]].closed
    /\ ~heap[mpanes[2]].closed

\* C6: a tick handled while Running with both panes exited runs the closure of
\* cleanup (both panes closed), returns tea.Quit and schedules no further tick;
\* once no tick is in flight none is ever in flight again, so no later tick repeats
\* the termination, and the closure of cleanup has run at most once.
DualExitTerminatesOnce ==
    [][ /\ (tick /\ Running /\ TickEnds)
          => /\ cleanupRuns' = 1
             /\ Released(heap'[mpanes[1]]) /\ Released(heap'[mpanes[2]])
             /\ quitSignals' = quitSignals + 1
             /\ ~tickPending'
        /\ ~tickPending => ~tickPending'
        /\ cleanupRuns' <= 1 ]_vars

\* The session was ended by a tick: no tick in flight, one quit, one cleanup.
DualExitTerminatesOnceWitness ==
    /\ pc = "loop" /\ started /\ ~tickPending
    /\ quitSignals = 1 /\ cleanupRuns = 1
    /\ Released(heap[mpanes[1]]) /\ Released(heap[mpanes[2]])

\* C7: at 80x24 with both panes at (37,21) and focus 0, once the prefix and then q
\* have been handled (the one tea.Quit so far being theirs), cleanup has run, both
\* panes are closed, and no later step returns tea.Quit again.
QuitKeySignalsOnce ==
    [][ (/\ QuitKeyHandled /\ quitSignals = 1
         /\ width = 80 /\ height = 24 /\ focused = 0
         /\ heap[mpanes[1]].pty = <<37, 21>> /\ heap[mpanes[2]].pty = <<37, 21>>)
        => /\ cleanupRuns = 1
           /\ Released(heap[mpanes[1]]) /\ Released(heap[mpanes[2]])
           /\ quitSignals' = 1 ]_vars

\* C8 as stated: the prefix pressed right after a prefix that was accepted with
\* meta-mode off sends exactly one Ctrl+A to the focused pane, whatever the state
\* of that pane.
PrefixTwiceSendsOne ==
    [][ (PrefixJustAccepted /\ Running /\ handleKey(CtrlA))
        => /\ lastKey.sent = <<>>
           /\ lastKey'.sent = <<[pane |-> focused, key |-> CtrlA]>>
           /\ ~metaActive'
           /\ focused' = focused ]_vars

\* C8 amended: the second prefix sends exactly one Ctrl+A to the focused pane, and
\* nothing to the other, provided the focused pane has not exited when it is
\* handled; if it has exited nothing is sent.  The first prefix sent nothing, and
\* after the second meta-mode is off and the focus is unchanged.
PrefixTwiceSendsOneIfLive ==
    [][ (PrefixJustAccepted /\ Running /\ handleKey(CtrlA))
        => /\ lastKey.sent = <<>>
           /\ lastKey'.sent = (IF Exited(FocusedPane) THEN <<>>
                               ELSE <<[pane |-> focused, key |-> CtrlA]>>)
           /\ ~metaActive'
           /\ focused' = focused ]_vars

\* The second prefix has been handled and one Ctrl+A went to the focused pane.
PrefixTwiceSendsOneWitness ==
    /\ lastKey.ev /\ lastKey.started /\ lastKey.meta /\ IsPrefix(lastKey.key)
    /\ lastKey.sent = <<[pane |-> focused, key |-> CtrlA]>>
    /\ ~metaActive /\ Running

\* C9: meta-mode is on exactly when the most recent key message was a prefix
\* accepted with meta-mode off (size and tick messages in between change nothing),
\* and that prefix sent nothing; hence after the key that follows, whatever it is,
\* meta-mode is off.
MetaOnlyAfterPrefix ==
    /\ metaActive <=> PrefixJustAccepted
    /\ metaActive => lastKey.sent = <<>>

\* An unrecognised key was pressed in meta-mode and meta-mode is off again.
MetaOnlyAfterPrefixWitness ==
    /\ lastKey.ev /\ lastKey.started /\ lastKey.meta
    /\ MetaCommand(lastKey.key) = "none"
    /\ ~metaActive

\* C10: while Running with meta-mode off, a key other than the prefix is sent
\* exactly once, to the focused pane only, unless that pane has exited; then it is
\* sent to no pane.
PlainKeyToFocusedPane ==
    [][ \A key \in Keys :
          (handleKey(key) /\ Running /\ ~metaActive /\ ~IsPrefix(key))
          => lastKey'.sent = (IF Exited(FocusedPane) THEN <<>>
                              ELSE <<[pane |-> focused, key |-> key]>>) ]_vars

\* A plain key went to the right pane after a focus switch.
PlainKeyToFocusedPaneWitness ==
    /\ lastKey.ev /\ lastKey.started /\ ~lastKey.meta /\ ~IsPrefix(lastKey.key)
    /\ focused = 1
    /\ lastKey.sent = <<[pane |-> 1, key |-> lastKey.key]>>

\* C11: while the panes do not exist (started unset) meta-mode is off and the focus
\* is 0, and handling any key message, the prefix and q included, changes no field
\* of the controller and no pane, sends nothing, runs no cleanup and returns no
\* tea.Quit.
KeysIgnoredBeforeStart ==
    [][ /\ ~started => ~metaActive /\ focused = 0
        /\ \A key \in Keys :
             (handleKey(key) /\ ~started)
             => /\ UNCHANGED <<width, height, started, focused, metaActive, mpanes>>
                /\ UNCHANGED <<heap, cleanupOnce, cleanupRuns, quitSignals, tickPending>>
                /\ lastKey'.sent = <<>> ]_vars

\* The prefix was pressed before the panes existed and meta-mode is still off.
KeysIgnoredBeforeStartWitness ==
    /\ lastKey.ev /\ ~lastKey.started /\ IsPrefix(lastKey.key)
    /\ ~started /\ ~metaActive /\ quitSignals = 0 /\ cleanupRuns = 0

\* C12: the focus index is 0 or 1, initially 0; a switch-pane command (Tab pressed
\* in meta-mode) changes it to the other value, so it always equals the parity of
\* the number of switch-pane commands handled and two of them restore it.
FocusToggles ==
    [][ /\ focused \in {0, 1}
        /\ focused = lastKey.switches
        /\ ~lastKey.ev => focused = 0
        /\ \A key \in Keys :
             (handleKey(key) /\ started /\ metaActive /\ key.code = "tab")
             => focused' = 1 - focused ]_vars

\* A second switch-pane command has just brought the focus back to 0.
FocusTogglesWitness ==
    /\ lastKey.ev /\ lastKey.started /\ lastKey.meta /\ lastKey.key.code = "tab"
    /\ lastKey.switches = 0 /\ focused = 0

\* A key that is none of Tab, unmodified q and Ctrl+A.
Unrecognised(key) ==
    /\ key.code # "tab"
    /\ ~(key.code = "q" /\ key.mod = "none")
    /\ ~(key.code = "a" /\ key.mod = "ctrl")

\* C13: a key that is none of Tab, unmodified q and Ctrl+A, handled in meta-mode,
\* turns meta-mode off and changes nothing else: focus, size, panes, cleanup and
\* quit count are unchanged and nothing is sent.
UnrecognisedOnlyClearsMeta ==
    [][ \A key \in Keys :
          (handleKey(key) /\ started /\ metaActive /\ Unrecognised(key))
          => /\ ~metaActive'
             /\ UNCHANGED <<width, height, started, focused, mpanes>>
             /\ UNCHANGED <<heap, cleanupOnce, cleanupRuns, quitSignals, tickPending>>
             /\ lastKey'.sent = <<>> ]_vars

\* Ctrl+Q was pressed in meta-mode: the session goes on with meta-mode off.
UnrecognisedOnlyClearsMetaWitness ==
    /\ lastKey.ev /\ lastKey.started /\ lastKey.meta
    /\ lastKey.key = [code |-> "q", mod |-> "ctrl"]
    /\ ~metaActive /\ Running /\ quitSignals = 0

\* C14: Resize called on a pane whose exited flag or closed flag is set returns ok
\* and changes neither the pty size nor the emulator size.
ResizeNoOpWhenDead ==
    [][ \A c \in Callers, sz \in PaneSizes, fail \in BOOLEAN :
          (ResizeCall(c, sz, fail) /\ (heap[1].done \/ heap[1].closed))
          => /\ callers'[c].ret = "ok"
             /\ heap'[1].pty = heap[1].pty
             /\ heap'[1].emu = heap[1].emu ]_vars

\* Resize to another size has returned ok on a pane that had exited but was not
\* closed, and the pane still has the size it had.
ResizeNoOpWhenDeadWitness ==
    \E c \in Callers :
        /\ At(c, "resized") /\ callers[c].ret = "ok"
        /\ callers[c].done /\ ~callers[c].closed
        /\ callers[c].size # heap[1].pty /\ callers[c].size # heap[1].emu

\* C15: the pty and the emulator have the same size after construction and after
\* every Resize; a Resize of a live pane whose pty resize fails returns an error
\* and leaves the emulator size unchanged.
PtyAndEmulatorInStep ==
    [][ /\ heap[1].pty = heap[1].emu
        /\ heap'[1].pty = heap'[1].emu
        /\ \A c \in Callers, sz \in PaneSizes :
             (ResizeCall(c, sz, TRUE) /\ ~heap[1].done /\ ~heap[1].closed)
             => /\ callers'[c].ret = "err"
                /\ heap'[1].emu = heap[1].emu ]_vars

\* Resize of a live pane to another size has failed: both sizes are the old one.
PtyAndEmulatorInStepWitness ==
    \E c \in Callers :
        /\ At(c, "resized") /\ callers[c].ret = "err"
        /\ callers[c].size # heap[1].emu /\ heap[1].pty = heap[1].emu

\* C16: while the panes exist the cursor is shown at (x + 1, y + 1) when the focus
\* is 0 and at (x + pw + 4, y + 1) when it is 1, (x, y) being the cursor of the
\* focused pane's emulator and pw the pane width for the current terminal width;
\* at width 80 the position (3, 2) is shown at (4, 3) left and (44, 3) right.
CursorTranslated ==
    started =>
        /\ \A cur \in [{0, 1} -> Positions] :
             View(cur).cursor =
                 IF focused = 0
                 THEN <<cur[0][1] + 1, cur[0][2] + 1>>
                 ELSE <<cur[1][1] + GoDiv(width - 5, 2) + 4, cur[1][2] + 1>>
        /\ width = 80 =>
             View([i \in {0, 1} |-> <<3, 2>>]).cursor
                 = IF focused = 1 THEN <<44, 3>> ELSE <<4, 3>>

\* The right pane is focused in an 80-column terminal: its (3, 2) is shown at (44, 3)
\* whatever the left pane's cursor is.
CursorTranslatedWitness ==
    /\ started /\ focused = 1 /\ width = 80
    /\ View([i \in {0, 1} |-> IF i = 1 THEN <<3, 2>> ELSE <<0, 0>>]).cursor = <<44, 3>>

\* C17: for the current terminal size (W, H), paneSize gives ph = H - 3 and pw the
\* integer quotient of W - 5 by 2 (rounded towards zero, as Go divides); both are
\* at least 0 when W >= 5 and H >= 3; paneSize(80, 24) = (37, 21).
PaneSizeArithmetic ==
    LET pw == paneSize(width, height)[1]
        ph == paneSize(width, height)[2]
    IN  /\ ph = height - 3
        /\ width >= 5 => 2 * pw <= width - 5 /\ width - 5 <= 2 * pw + 1
        /\ width < 5 => 2 * pw >= width - 5 /\ width - 5 >= 2 * pw - 1
        /\ (width >= 5 /\ height >= 3) => pw >= 0 /\ ph >= 0
        /\ paneSize(80, 24) = <<37, 21>>

\* The panes were constructed for an 80x24 terminal at 37x21.
PaneSizeArithmeticWitness ==
    /\ started /\ width = 80 /\ height = 24
    /\ heap[mpanes[1]].pty = <<37, 21>> /\ heap[mpanes[2]].emu = <<37, 21>>
    /\ paneSize(width, height) = <<37, 21>>

\* C18: panes are constructed only by a size message (W, H) with W >= 7 and H >= 4
\* (in such a step width and height become W and H): every
\* other step leaves started and the set of panes as they are, so before the first
\* such message no pane exists; and when such a message sets started, both slots hold
\* new panes whose pty and emulator are sized ((W - 5) / 2, H - 3).
ConstructedOnlyOnUsableSize ==
    [][ /\ (~started /\ quitSignals = 0) => heap = <<>> /\ mpanes = <<0, 0>>
        /\ ~(width' >= 7 /\ height' >= 4 /\ handleResize(<<width', height'>>))
           => /\ Len(heap') = Len(heap)
              /\ UNCHANGED <<started, mpanes>>
        /\ (width' >= 7 /\ height' >= 4 /\ handleResize(<<width', height'>>)
               /\ heap = <<>>)
           => \/ /\ started' /\ quitSignals' = quitSignals
                 /\ mpanes' = <<1, 2>> /\ Len(heap') = 2
                 /\ \A i \in 1 .. 2 :
                      /\ heap'[i].pty = <<(width' - 5) \div 2, height' - 3>>
                      /\ heap'[i].emu = <<(width' - 5) \div 2, height' - 3>>
              \/ /\ ~started' /\ quitSignals' = quitSignals + 1 ]_vars

\* After a key and a 6x4 size message were handled without a pane, a 7x4 size
\* message has constructed both panes at 1x1.
ConstructedOnlyOnUsableSizeWitness ==
    /\ started /\ width = 7 /\ height = 4
    /\ lastKey.ev /\ ~lastKey.started
    /\ heap[mpanes[1]].pty = <<1, 1>> /\ heap[mpanes[2]].pty = <<1, 1>>

\* C19: once a construction has failed (a quit was signalled and started is unset),
\* no later step constructs a pane or sets started: construction is never retried.
NoRetryAfterFailedConstruction ==
    [][ (~started /\ quitSignals > 0)
        => (~started' /\ Len(heap') = Len(heap)) ]_vars

\* C20: once cleanup has run with both panes in place, both panes are closed and
\* released, whatever the Close of the first pane returned.
CleanupClosesBoth ==
    (cleanupOnce /\ BothPanes)
    => /\ Released(heap[mpanes[1]])
       /\ Released(heap[mpanes[2]])
       /\ heap[mpanes[1]].once = "done" /\ heap[mpanes[2]].once = "done"

\* Cleanup ran inside the event loop, the first pane's Close returned an error and
\* the second pane is released all the same.
CleanupClosesBothWitness ==
    /\ pc = "loop" /\ cleanupOnce /\ BothPanes /\ cleanupRuns = 1
    /\ heap[mpanes[1]].closeRes = "err"
    /\ Released(heap[mpanes[2]])

\* C21: the result of cleanup is the first error a pane's Close returned, and ok
\* only if both Close calls returned ok.
CleanupReportsFirstError ==
    (cleanupOnce /\ BothPanes)
    => LET r == <<heap[mpanes[1]].closeRes, heap[mpanes[2]].closeRes>>
       IN  CleanupResult(r) = IF r[1] = "err" THEN "err" ELSE r[2]

\* C22: a key message handled while the focused pane is closed sends nothing to that
\* pane's emulator, whether or not the pane's done flag is set.
NoKeyToClosedPane ==
    [][ \A key \in Keys :
          (handleKey(key) /\ started /\ FocusedPane.closed)
          => lastKey'.sent = <<>> ]_vars

\* C23: once both panes exist and both children have exited, the controller gets
\* to run cleanup and to signal quit, with no key needed, unless the host loop
\* returns first (then ticks are no longer delivered).
DualExitLeadsToQuit ==
    (pc = "loop" /\ started
        /\ heap[mpanes[1]].proc = "exited" /\ heap[mpanes[2]].proc = "exited")
    ~> (pc = "returned" \/ (cleanupOnce /\ quitSignals > 0))

\* Both children exited and a tick ended the session although no key was ever
\* pressed.
DualExitLeadsToQuitWitness ==
    /\ pc = "loop" /\ started /\ ~lastKey.ev
    /\ heap[mpanes[1]].proc = "exited" /\ heap[mpanes[2]].proc = "exited"
    /\ cleanupRuns = 1 /\ quitSignals = 1 /\ ~tickPending

\* The number of lines of content that are the entry as they stand, and once
\* trimmed of surrounding white space.
LinesEqual(content, entry) ==
    Cardinality({i \in 1 .. Len(Split(content)) : Split(content)[i] = entry})

LinesTrimmedEqual(content, entry) ==
    Cardinality({i \in 1 .. Len(Split(content)) :
                    TrimSpace(Split(content)[i]) = entry})

\* The content with a newline added if it is not empty and lacks one, then the
\* entry on a line of its own.
Appended(content, entry) ==
    LET kept == IF content = <<>> \/ content[Len(content)] = "\n"
                THEN content ELSE Append(content, "\n")
    IN  kept \o entry \o <<"\n">>

\* C24 as stated: after one call or more, the file is the initial one if a line of
\* it equals the entry and the initial content with the entry appended otherwise,
\* and exactly one line of it equals the entry.
GitignoreEntryOnce ==
    ws.calls >= 1
    => /\ IF LinesEqual(ws.initial.content, AgentEntry) > 0
          THEN ws.file = ws.initial
          ELSE ws.file = [exists |-> TRUE,
                          content |-> Appended(ws.initial.content, AgentEntry)]
       /\ LinesEqual(ws.file.content, AgentEntry) = 1

\* C24, amended: after one call or more (so a second call changes nothing), the
\* file is the initial one if a line of it is the entry once trimmed of white space,
\* and the initial content with the entry appended on its own line otherwise; the
\* lines that are the entry once trimmed are those the file had at first, or one.
GitignoreEntryOnceTrimmed ==
    ws.calls >= 1
    => /\ IF LinesTrimmedEqual(ws.initial.content, AgentEntry) > 0
          THEN ws.file = ws.initial
          ELSE ws.file = [exists |-> TRUE,
                          content |-> Appended(ws.initial.content, AgentEntry)]
       /\ LinesTrimmedEqual(ws.file.content, AgentEntry)
            = IF LinesTrimmedEqual(ws.initial.content, AgentEntry) > 0
              THEN LinesTrimmedEqual(ws.initial.content, AgentEntry) ELSE 1

\* Two calls on a file that held "p" without a newline: the file is "p", a newline,
\* the entry and a newline.
GitignoreEntryOnceTrimmedWitness ==
    /\ ws.calls = 2
    /\ ws.initial = [exists |-> TRUE, content |-> <<"p">>]
    /\ ws.file.content = <<"p", "\n", "p", "/", "\n">>

TickFrame ==
    [][ tick
        => IF started /\ heap[mpanes[1]].done /\ heap[mpanes[2]].done
           THEN /\ ~tickPending'
                /\ quitSignals' = quitSignals + 1
                /\ cleanupOnce'
           ELSE /\ tickPending'
                /\ UNCHANGED <<width, height, started, focused, metaActive, mpanes>>
                /\ UNCHANGED <<heap, cleanupOnce, cleanupRuns, quitSignals, lastKey>>
      ]_vars

\* One pane has exited, the other has not: the tick in flight will be handled and
\* the session goes on.
TickFrameWitness ==
    /\ Running /\ pc = "loop" /\ quitSignals = 0 /\ cleanupRuns = 0
    /\ heap[mpanes[1]].done /\ ~heap[mpanes[2]].done
    /\ tickPending /\ ENABLED tick

\* C27: in the first Close the closed flag is stored first; then the termination
\* signal is sent if, and only if, done is not set at that moment; then the emulator
\* is released, then the pty.  No step of Close waits for the child: each can be
\* taken whatever the child does.
CloseStepsInOrder ==
    [][ /\ heap[1].signals > 0 => heap[1].closed
        /\ heap[1].emuCloses > 0 => heap[1].closed
        /\ heap[1].ptyCloses > 0 => heap[1].emuCloses > 0
        /\ \A c \in Callers :
             /\ CloseSignal(c)
                => /\ heap[1].closed /\ heap[1].emuCloses = 0 /\ heap[1].ptyCloses = 0
                   /\ heap'[1].signals
                        = heap[1].signals + (IF heap[1].done THEN 0 ELSE 1)
             /\ CloseEmu(c) => heap[1].closed /\ heap[1].ptyCloses = 0
             /\ ClosePty(c) => heap[1].emuCloses = 1
             /\ At(c, "store") => ENABLED CloseStore(c)
             /\ At(c, "signal") => ENABLED CloseSignal(c)
             /\ At(c, "emu") => ENABLED CloseEmu(c)
             /\ At(c, "pty") => ENABLED ClosePty(c)
             /\ At(c, "unlock") => ENABLED CloseUnlock(c) ]_vars

\* Close has returned: the child was signalled once and is still running, emulator
\* and pty are released.
CloseStepsInOrderWitness ==
    /\ \E c \in Callers : At(c, "returned")
    /\ heap[1].signals = 1 /\ heap[1].proc = "running" /\ ~heap[1].done
    /\ Released(heap[1])

\* C28: the done flag and the closed flag of a pane only go from unset to set, under
\* every interleaving of the pumps, the child, Close and Resize; so once a load of
\* done (what Exited returns) has given true, done is set ever after.
FlagsOnlyRise ==
    [][ /\ heap[1].done => heap'[1].done
        /\ heap[1].closed => heap'[1].closed
        /\ \A c \in Callers :
             At(c, "resized")
             => /\ callers[c].done => heap[1].done
                /\ callers[c].closed => heap[1].closed ]_vars

\* A call of Resize loaded done as set and closed as unset; Close has run to its end
\* since, and done is still set.
FlagsOnlyRiseWitness ==
    /\ \E c \in Callers : At(c, "resized") /\ callers[c].done /\ ~callers[c].closed
    /\ heap[1].done /\ heap[1].closed /\ heap[1].once = "done"

PumpsEndAfterClose ==
    (heap[1].once = "done")
    ~> (pumps.out = "ended" /\ pumps.in = "ended" /\ pumps.wait = "ended")

\* C31: a call of NewPane that fails leaves nothing behind.  When the allocation of
\* the pseudo-terminal failed, none was allocated; when the start of the command
\* failed, the one pseudo-terminal allocated was released by NewPane itself; in both
\* cases no emulator was created, no goroutine started, and no pane returned with
\* the error.
FailedConstructionLeavesNothing ==
    \A c \in DOMAIN callers :
        (At(c, "constructed") /\ callers[c].outcome # "ok") =>
            LET m == callers[c].made
            IN  /\ m.err # "nil"
                /\ m.pane = <<>>
                /\ m.emus = 0
                /\ m.goroutines = 0
                /\ m.ptys = m.ptyCloses
                /\ callers[c].outcome = "ptyfail" => m.ptys = 0
                /\ callers[c].outcome = "startfail" => m.ptys = 1

\* Both failures have happened, in two contexts, beside a successful construction
\* elsewhere in the same execution.
FailedConstructionLeavesNothingWitness ==
    /\ \E c \in DOMAIN callers :
         At(c, "constructed") /\ callers[c].outcome = "startfail"
                              /\ callers[c].made.ptyCloses = 1
    /\ \E c \in DOMAIN callers :
         At(c, "constructed") /\ callers[c].outcome = "ptyfail"

\* Cell c lies in rectangle rc.
Inside(rc, c) ==
    rc.minX <= c[1] /\ c[1] < rc.maxX /\ rc.minY <= c[2] /\ c[2] < rc.maxY

\* The layout of the layer is valid: Draw does not return early.
ValidLayout ==
    paneSize(width, height)[1] > 0 /\ paneSize(width, height)[2] > 0

\* C32: in every frame drawn for a valid layout, into any region of any screen, no
\* cell the compositor writes itself lies in the content rectangle of either pane;
\* the two content rectangles have no cell in common, each is pw columns by ph rows,
\* and the rectangles handed to the emulators are those of the layout: columns
\* 1..pw for the left pane and pw+4..2pw+3 for the right, rows 1..ph, counted from
\* the origin of the region.
CompositorKeepsOutOfContent ==
    (started /\ ValidLayout) =>
        \A r \in Areas, b \in Areas :
            LET f  == Draw(Layer, r, b)
                pw == paneSize(width, height)[1]
                ph == paneSize(width, height)[2]
            IN  /\ Len(f.areas) = 2
                /\ f.cells \cap CellsOf(f.areas[1]) = {}
                /\ f.cells \cap CellsOf(f.areas[2]) = {}
                /\ CellsOf(f.areas[1]) \cap CellsOf(f.areas[2]) = {}
                /\ \A i \in 1 .. 2 :
                      /\ f.areas[i].maxX - f.areas[i].minX = pw
                      /\ f.areas[i].maxY - f.areas[i].minY = ph
                      /\ f.areas[i].minY = r.minY + 1
                /\ f.areas[1].minX = r.minX + 1
                /\ f.areas[2].minX = r.minX + pw + 4

\* The frame of the smallest layout (7x4, panes of one cell) drawn whole: the right
\* pane's content is the one cell (5, 1).
CompositorKeepsOutOfContentWitness ==
    /\ started /\ ValidLayout /\ width = 7 /\ height = 4
    /\ Draw(Layer, Rect(0, 0, 7, 4), Rect(0, 0, 7, 4)).cells # {}
    /\ CellsOf(Draw(Layer, Rect(0, 0, 7, 4), Rect(0, 0, 7, 4)).areas[2]) = {<<5, 1>>}

\* C33: whatever the drawable area of the target and whatever the region, areas
\* smaller than the layout included, every cell the compositor writes lies inside
\* the drawable area, and no cell of the status bar lies at or beyond the right
\* edge of the region; a write that falls outside writes nothing.
WritesStayInBounds ==
    started =>
        \A r \in Areas, b \in Areas :
            LET f       == Draw(Layer, r, b)
                statusY == r.minY + RowOffsets(paneSize(width, height)[2]).statusY
            IN  /\ \A c \in f.cells : Inside(b, c)
                /\ \A c \in f.cells : c[2] = statusY => c[1] < r.maxX
                /\ \A x \in {b.minX - 1, b.maxX}, y \in {b.minY - 1, b.maxY} :
                      setCell(b, x, y) = {}

\* A frame of 9x5 drawn into a region of 80x24 of a screen whose drawable area is
\* 4 columns by 2 rows: some cells are written and the others dropped; and the
\* same frame drawn into a region 7 columns wide of an 80x24 screen, where the
\* status bar ends at column 6.
WritesStayInBoundsWitness ==
    /\ started /\ width = 9 /\ height = 5
    /\ Draw(Layer, Rect(0, 0, 80, 24), Rect(1, 1, 5, 3)).cells # {}
    /\ Cardinality(Draw(Layer, Rect(0, 0, 80, 24), Rect(1, 1, 5, 3)).cells)
         < Cardinality(Draw(Layer, Rect(0, 0, 80, 24), Rect(0, 0, 80, 24)).cells)
    /\ <<6, 4>> \in Draw(Layer, Rect(0, 0, 7, 4), Rect(0, 0, 80, 24)).cells
    /\ <<7, 4>> \notin Draw(Layer, Rect(0, 0, 7, 4), Rect(0, 0, 80, 24)).cells

\* The frame of the layer drawn from the origin (0, 0) with nothing clipped.
WholeFrame == Draw(Layer, Rect(0, 0, 80, 24), Rect(0, 0, 80, 24))

\* The cursor positions of both emulators when the focused one reports (x, y).
CursorAt(x, y) == [i \in 0 .. 1 |-> IF i = focused THEN <<x, y>> ELSE <<0, 0>>]

\* C34: for every valid layout and every cursor position (x, y) of the focused
\* emulator with 0 <= x < pw and 0 <= y < ph, the cursor View shows lies inside the
\* content rectangle Draw hands to the focused pane's emulator when it draws from
\* the origin (0, 0), and on no cell the compositor writes itself.
CursorInsideFocusedContent ==
    (started /\ ValidLayout) =>
        \A x \in 0 .. paneSize(width, height)[1] - 1,
           y \in 0 .. paneSize(width, height)[2] - 1 :
            LET v == View(CursorAt(x, y))
            IN  /\ Len(v.cursor) = 2
                /\ Inside(WholeFrame.areas[focused + 1], v.cursor)
                /\ v.cursor \notin WholeFrame.cells

\* The right pane is focused in a terminal of 9x5 (panes of 2x2): its cursor at
\* (1, 1) is shown at (7, 2), the last cell of the right content rectangle.
CursorInsideFocusedContentWitness ==
    /\ started /\ focused = 1 /\ width = 9 /\ height = 5
    /\ View(CursorAt(1, 1)).cursor = <<7, 2>>
    /\ WholeFrame.areas[2] = Rect(6, 1, 8, 3)

\* C35: a terminal size W x H has a valid layout exactly when W >= 7 and H >= 4,
\* and then the frame fits the terminal: the rightmost border column is 2*pw+4 and
\* less than W, the status-bar row is ph+2 and equal to H-1, and every border,
\* divider and status cell of the frame drawn over the whole terminal lies inside
\* the W x H terminal, on whatever screen it is drawn.
FrameFitsTerminal ==
    LET pw  == paneSize(width, height)[1]
        ph  == paneSize(width, height)[2]
        col == ColumnOffsets(pw)
        row == RowOffsets(ph)
    IN  /\ ValidLayout <=> (width >= 7 /\ height >= 4)
        /\ ValidLayout =>
              /\ col.rBorderR = 2 * pw + 4
              /\ col.rBorderR < width
              /\ row.statusY = ph + 2
              /\ row.statusY = height - 1
              /\ \A c \in Draw(Layer, Rect(0, 0, width, height),
                                Rect(0, 0, width + 10, height + 10)).cells :
                    Inside(Rect(0, 0, width, height), c)

\* Panes exist in a terminal of width 7, where the rightmost border is on the last
\* column, and the status bar is cut at that column.
FrameFitsTerminalWitness ==
    /\ started /\ ValidLayout /\ width = 7 /\ height = 4
    /\ ColumnOffsets(paneSize(width, height)[1]).rBorderR = 6
    /\ <<6, 3>> \in Draw(Layer, Rect(0, 0, width, height),
                         Rect(0, 0, width + 10, height + 10)).cells

\* A size message whose pane construction fails.
ConstructionFails ==
    /\ handleResize(<<width', height'>>)
    /\ ~started /\ ~started'
    /\ ~LayoutUnusable(paneSize(width', height')[1], paneSize(width', height')[2])

\* An unmodified q pressed while meta-mode is on and the panes exist.
QuitCommand == handleKey(Q) /\ started /\ metaActive

\* A tick that finds both panes exited.
TickFindsBothExited ==
    tick /\ started /\ Exited(heap[mpanes[1]]) /\ Exited(heap[mpanes[2]])

\* C36: a quit is signalled to the host only by a size message whose pane
\* construction fails, by an unmodified q pressed while meta-mode is on and the
\* panes exist, or by a tick that finds both panes exited; and while the host loop
\* runs, cleanup is run only by the last two.  Every other message (a q with
\* meta-mode off, a key before the panes exist, a size message once they exist, a
\* tick with a live pane) neither signals quit nor runs cleanup.
QuitOnlyOnThreePaths ==
    [][ /\ quitSignals' # quitSignals
            => ConstructionFails \/ QuitCommand \/ TickFindsBothExited
        /\ (pc' = "loop" /\ (cleanupRuns' # cleanupRuns \/ cleanupOnce' # cleanupOnce))
            => QuitCommand \/ TickFindsBothExited
        /\ \A key \in Keys :
              (handleKey(key) /\ (~started \/ ~metaActive \/ key # Q))
                  => UNCHANGED <<quitSignals, cleanupRuns, cleanupOnce>>
        /\ (handleResize(<<width', height'>>) /\ started)
              => UNCHANGED <<quitSignals, cleanupRuns, cleanupOnce>>
        /\ (tick /\ ~(started /\ Exited(heap[mpanes[1]]) /\ Exited(heap[mpanes[2]])))
              => UNCHANGED <<quitSignals, cleanupRuns, cleanupOnce>> ]_vars

\* The quit command signalled quit and ran cleanup, the pumps of the closed panes
\* stored done, and a tick signalled quit a second time; before that, a plain q
\* with meta-mode off had been forwarded.
QuitOnlyOnThreePathsWitness ==
    /\ pc = "loop" /\ quitSignals = 2 /\ cleanupRuns = 1
    /\ QuitKeyHandled /\ ~tickPending
    /\ Exited(heap[mpanes[1]]) /\ Exited(heap[mpanes[2]])

Tab == [code |-> "tab", mod |-> "none"]

\* C37: a size message and a tick leave the focus index and meta-mode as they
\* were, and a key message that forwards a key to a pane leaves the focus as it
\* was; so when the most recent key message was an accepted prefix, whatever size
\* messages and ticks came after it, meta-mode is still on and a Tab toggles the
\* focus.
FocusAndMetaFrame ==
    [][ /\ (handleResize(<<width', height'>>) \/ tick)
              => UNCHANGED <<focused, metaActive>>
        /\ \A key \in Keys :
              (handleKey(key) /\ lastKey'.sent # <<>>) => focused' = focused
        /\ PrefixJustAccepted => metaActive
        /\ (PrefixJustAccepted /\ handleKey(Tab))
              => focused' = 1 - focused /\ ~metaActive' ]_vars

\* The prefix was accepted at 80x24 and is the most recent key; since the panes
\* exist only after a size message of 80x24, the size message of 6x3 came after
\* their construction: meta-mode is on and a Tab would toggle the focus.
FocusAndMetaFrameWitness ==
    /\ PrefixJustAccepted /\ metaActive /\ pc = "loop"
    /\ width = 6 /\ height = 3
    /\ ENABLED (handleKey(Tab) /\ focused' = 1 - focused)

\* C38: when Run has returned, every pane constructed during the session (the two
\* in the slots, and a first pane whose second failed to be constructed) has been
\* closed: its closed flag is set, its emulator and its pseudo-terminal have been
\* released, and its sync.Once is used up; whichever way the host loop ended.
AllPanesClosedAtReturn ==
    pc = "returned" =>
        \A id \in PaneIds :
            Released(heap[id]) /\ heap[id].once = "done"

\* The host loop ended by itself with both panes open and no quit signalled: the
\* call of cleanup in Run closed them.
AllPanesClosedAtReturnWitness ==
    /\ pc = "returned" /\ started /\ BothPanes /\ quitSignals = 0
    /\ cleanupRuns = 1
    /\ Released(heap[mpanes[1]]) /\ Released(heap[mpanes[2]])

\* The sizes of SpecSizes that have no valid layout.
InvalidSizes ==
    {sz \in LayoutSizes :
        paneSize(sz[1], sz[2])[1] <= 0 \/ paneSize(sz[1], sz[2])[2] <= 0}

\* C39: a size message without a valid layout (pw <= 0 or ph <= 0) handled while
\* Running stores the width and height of the message and changes nothing else:
\* no pane is resized or closed (each keeps the dimensions of its last successful
\* resize), the slots and started stay, cleanup does not run, no quit is signalled,
\* and the session is still Running.
InvalidSizeOnlyStored ==
    [][ \A sz \in InvalidSizes :
          (Running /\ handleResize(sz))
          => /\ width' = sz[1] /\ height' = sz[2]
             /\ heap' = heap
             /\ Running'
             /\ UNCHANGED <<started, mpanes, focused, metaActive, cleanupOnce,
                            cleanupRuns, quitSignals, tickPending>> ]_vars

\* Running with panes of 37x21 and a stored size of 5x2: the size message of 5x2
\* came after the one that sized the panes.
InvalidSizeOnlyStoredWitness ==
    /\ Running /\ pc = "loop" /\ width = 5 /\ height = 2
    /\ \A i \in 1 .. 2 :
          /\ heap[mpanes[i]].pty = <<37, 21>> /\ heap[mpanes[i]].emu = <<37, 21>>
          /\ ~heap[mpanes[i]].closed

====
